---- MODULE Spec2Model ----
(***************************************************************************)
(* Model of the narwhal client library: the LeagueClient facade            *)
(* (src/src/api.rs), the DDragonClient facade and its dispatch             *)
(* get_deserialized_or_add_raw (src/src/ddragon.rs) and the status         *)
(* classifier ClientError::check_status (src/src/error.rs).                *)
(*                                                                         *)
(* utils::cached_resp and DDragonClient::new_for_lapi are called by        *)
(* api.rs but are defined in none of the three files; they are modelled    *)
(* from the design specification of the dispatcher (lock, lookup, unlock,  *)
(* fetch, classify, lock, insert, unlock, deserialize).                    *)
(*                                                                         *)
(* Three state machines share the variables:                               *)
(*   Spec          one LeagueClient, its futures, its embedded DDragonClient*)
(*   SpecStatic    the static DDRAGON_CLIENT and the threads that lock it  *)
(*   SpecClassify  check_status over every 16-bit status code              *)
(***************************************************************************)
EXTENDS Integers, Sequences, FiniteSets, TLC

VARIABLES
    env,        \* the RIOT_API_KEY environment variable: None or Some(token)
    status_result, \* the last get_status(status) call and what it returned
    lapi,       \* the LeagueClient value produced by LeagueClient::new
    ddc,        \* the static DDRAGON_CLIENT: the DDragonClient behind its Mutex
    stores,     \* the allocated HashMaps, by allocation number
    cacheLock,  \* holder of the Mutex inside LeagueClient.cache
    task,       \* one record per thread of control: its dispatch in progress
    calls,      \* history: HTTP GETs sent, per store and url
    writes,     \* history: HashMap::insert calls, per store and url
    misses,     \* history: lookups that found no entry, per store and url
    retOfStored,\* history: who stored the current body, and what that dispatch returned
    received,   \* history: bodies the transport handed to a dispatch, per store and url
    otherCalls, \* history: HTTP GETs that are not part of a dispatch
    dispatched  \* history: dispatches started

vars == <<env, status_result, lapi, ddc, stores, cacheLock, task, calls, writes, misses,
          retOfStored, received, otherCalls, dispatched>>

\* ------------------------------------------------------------------ bounds

\* dispatches started over the lifetime of the process
MaxDispatch == 2
\* distinct revisions of a resource the remote service can answer with
MaxRev == 2

\* ------------------------------------------------------------ Option<T>

None == <<>>
Some(x) == <<x>>
IsSome(o) == o # <<>>
Unwrap(o) == o[1]

\* ------------------------------------------------------------ constants

\* token.len() != 42_usize
RequiredLen == 42
\* u16::MAX, the largest status code check_status can be given
U16Max == 65535

\* the Region a LeagueClient is built for in the state machine
Regions == {"NA"}
\* the values of the Region enum the classifier is given
AllRegions == Regions \cup {"RU", "EUW"}
Languages == {"en_US"}

\* the substring check_token looks for
RGAPI == <<"R", "G", "A", "P", "I">>

\* ------------------------------------------------------ credential tokens

RECURSIVE Pad(_, _)
Pad(c, n) == IF n = 0 THEN <<>> ELSE <<c>> \o Pad(c, n - 1)

\* str::contains: pat occurs as a contiguous substring of s
Contains(s, pat) ==
    \E i \in 1..(Len(s) - Len(pat) + 1) : SubSeq(s, i, i + Len(pat) - 1) = pat

Tokens ==
    { Pad("x", 4) \o RGAPI \o Pad("x", RequiredLen - 9), \* well-formed, RGAPI inside
      RGAPI \o Pad("-", RequiredLen - 6),          \* 41 characters
      RGAPI \o Pad("-", RequiredLen - 4),          \* 43 characters
      Pad("x", RequiredLen),                       \* 42 characters, no RGAPI
      <<"R", "G", "A", "P">> \o Pad("-", RequiredLen - 4), \* 42, RGAP only
      RGAPI,                                       \* the substring alone
      <<>> }                                       \* empty

\* the RIOT_API_KEY environment variable: unset, or set to a token
EnvValues == {None} \cup {Some(t) : t \in Tokens}

\* ----------------------------------------------------------- error values

\* a ClientError: its variant and the context it carries
Error(variant, limit, region, token) ==
    [variant |-> variant, limit |-> limit, region |-> region, token |-> token]
Plain(variant) == Error(variant, None, None, None)

Ok(v) == [tag |-> "Ok", val |-> Some(v), err |-> None]
OkUnit == [tag |-> "Ok", val |-> None, err |-> None]
Err(e) == [tag |-> "Err", val |-> None, err |-> Some(e)]
Panic(msg) == [tag |-> "Panic", val |-> None, err |-> Some(Plain(msg))]
NoResult == [tag |-> "None", val |-> None, err |-> None]

\* ClientError::check_status with the limit reported for 429 changed
check_status_limit1(region, code) ==
    CASE code = 400 -> Err(Plain("BadRequest"))
      [] code = 401 -> Err(Plain("Unauthorized"))
      [] code = 403 -> Err(Plain("Forbidden"))
      [] code = 404 -> Err(Plain("DataNotFound"))
      [] code = 405 -> Err(Plain("MethodNotAllowed"))
      [] code = 415 -> Err(Plain("UnsupportedMediaType"))
      [] code = 429 -> Err(Error("RateLimitExceeded", Some(1), None, None))
      [] code = 500 -> Err(Plain("InternalServerError"))
      [] code = 502 -> Err(Plain("BadGateway"))
      [] code = 503 -> Err(Error("ServiceUnavailable", None, Some(region), None))
      [] code = 504 -> Err(Plain("GatewayTimeout"))
      [] OTHER -> OkUnit

\* ClientError::check_status
check_status(region, code) ==
    CASE code = 400 -> Err(Plain("BadRequest"))
      [] code = 401 -> Err(Plain("Unauthorized"))
      [] code = 403 -> Err(Plain("Forbidden"))
      [] code = 404 -> Err(Plain("DataNotFound"))
      [] code = 405 -> Err(Plain("MethodNotAllowed"))
      [] code = 415 -> Err(Plain("UnsupportedMediaType"))
      [] code = 429 -> Err(Error("RateLimitExceeded", Some(0), None, None))
      [] code = 500 -> Err(Plain("InternalServerError"))
      [] code = 502 -> Err(Plain("BadGateway"))
      [] code = 503 -> Err(Error("ServiceUnavailable", None, Some(region), None))
      [] code = 504 -> Err(Plain("GatewayTimeout"))
      [] OTHER -> OkUnit

\* check_token with the length test dropped
check_token_no_len(token) ==
    IF ~Contains(token, RGAPI)
    THEN Err(Error("WrongToken", None, None, Some(token)))
    ELSE OkUnit

\* check_token
check_token(token) ==
    IF ~Contains(token, RGAPI) \/ Len(token) # RequiredLen
    THEN Err(Error("WrongToken", None, None, Some(token)))
    ELSE OkUnit

\* ------------------------------------------------- identities and bodies

\* request identities: the url handed to the dispatch
Urls == {"/summoner/v4/summoners/by-name/Vetro", "/champion.json"}

\* the deserialization target T each accessor asks for with its url
Types == {"Summoner", "AllChampions"}
TypeOf(url) ==
    IF url = "/summoner/v4/summoners/by-name/Vetro" THEN "Summoner" ELSE "AllChampions"

\* a response body: JSON text of some shape, in one of MaxRev revisions
Bodies == [shape : Types, rev : 1..MaxRev]

\* status codes the remote service answers with in the state machine
Statuses == {200, 404, 503}

\* what the transport hands back: a failure, or a status and a body
Responses ==
    {[sent |-> FALSE, status |-> 0, body |-> None]}
        \cup {[sent |-> TRUE, status |-> st, body |-> Some(b)] : st \in Statuses, b \in Bodies}

\* serde_json::from_str::<T>(body): Ok(value) when the text has T's shape
from_str(body, T) ==
    IF body.shape = T
    THEN Ok([type |-> T, rev |-> body.rev])
    ELSE Err(Plain("serde_json::Error"))

\* Result::unwrap / Result::expect
unwrap(r) == IF r.tag = "Ok" THEN r ELSE Panic("unwrap on Err")

\* ------------------------------------------------------------- the stores

EmptyMap == [u \in Urls |-> None]
NotStored == [by |-> None, ret |-> NoResult]
ZeroMap == [u \in Urls |-> 0]

\* HashMap::insert that keeps an entry already present
HashMap_insert_if_absent(map, url, body) ==
    IF IsSome(map[url]) THEN map ELSE [map EXCEPT ![url] = Some(body)]

\* HashMap::insert that files the body under every key
HashMap_insert_every_key(map, url, body) == [u \in Urls |-> Some(body)]

\* HashMap::insert: the new value replaces whatever the key held
HashMap_insert(map, url, body) == [map EXCEPT ![url] = Some(body)]

\* HashMap::get
HashMap_get(map, url) == map[url]

\* ------------------------------------------------------ threads of control

\* futures returned by the accessors of LeagueClient, run concurrently
LeagueTasks == {"f1", "f2"}
\* the caller holding lapi.ddragon(), the embedded DDragonClient
EmbeddedTasks == {"e"}
\* the test threads that lock the static DDRAGON_CLIENT
TestThreads == {"t1", "t2"}
Tasks == LeagueTasks \cup EmbeddedTasks \cup TestThreads

Idle == [pc |-> "idle", accessor |-> None, store |-> 0, url |-> None, status |-> None,
         resp |-> None, hit |-> FALSE, result |-> NoResult]

NoLeagueClient ==
    [state |-> "none", region |-> None, base_url |-> None, cache |-> 0,
     ddragon |-> None, api_key |-> None, client |-> 0, error |-> None]

NoStatus == [called |-> FALSE, status |-> 0, result |-> NoResult]

NoDDragonClient ==
    [state |-> "none", cache |-> 0, holder |-> None, poisoned |-> FALSE]

Init ==
    /\ env \in EnvValues
    /\ status_result = NoStatus
    /\ lapi = NoLeagueClient
    /\ ddc = NoDDragonClient
    /\ stores = <<>>
    /\ cacheLock = None
    /\ task = [t \in Tasks |-> Idle]
    /\ calls = <<>>
    /\ writes = <<>>
    /\ misses = <<>>
    /\ retOfStored = <<>>
    /\ received = <<>>
    /\ otherCalls = 0
    /\ dispatched = 0

\* a fresh HashMap::new(); shared when wrapped in Arc<Mutex<_>>
Allocate(shared) ==
    /\ stores' = Append(stores, [shared |-> shared, map |-> EmptyMap])
    /\ calls' = Append(calls, ZeroMap)
    /\ writes' = Append(writes, ZeroMap)
    /\ misses' = Append(misses, ZeroMap)
    /\ retOfStored' = Append(retOfStored, [u \in Urls |-> NotStored])
    /\ received' = Append(received, [u \in Urls |-> {}])

Hist == <<calls, writes, misses, retOfStored, received>>

\* region.as_platform_str() in the base url
base_url_of(region) == <<"https://", region, ".api.riotgames.com/lol">>

\* LeagueClient::new unwrapping the environment variable instead of returning
LeagueClient_new_unwrap_env(region) ==
    /\ lapi.state = "none"
    /\ IF env = None
       THEN /\ lapi' = [lapi EXCEPT !.state = "panic", !.error = Some(Plain("NotPresent"))]
            /\ UNCHANGED <<stores, Hist>>
       ELSE LET chk == check_token(Unwrap(env)) IN
            IF chk.tag = "Err"
            THEN /\ lapi' = [lapi EXCEPT !.state = "err", !.error = chk.err]
                 /\ UNCHANGED <<stores, Hist>>
            ELSE /\ Allocate(TRUE)
                 /\ lapi' = [state |-> "ok", region |-> Some(region),
                             base_url |-> Some(base_url_of(region)),
                             cache |-> Len(stores) + 1, ddragon |-> None,
                             api_key |-> env, client |-> 1, error |-> None]
    /\ UNCHANGED <<env, status_result, ddc, cacheLock, task, otherCalls, dispatched>>

\* LeagueClient::new(region)
LeagueClient_new(region) ==
    /\ lapi.state = "none"
    /\ IF env = None
       THEN /\ lapi' = [lapi EXCEPT !.state = "err", !.error = Some(Plain("NoToken"))]
            /\ UNCHANGED <<stores, Hist>>
       ELSE LET chk == check_token(Unwrap(env)) IN
            IF chk.tag = "Err"
            THEN /\ lapi' = [lapi EXCEPT !.state = "err", !.error = chk.err]
                 /\ UNCHANGED <<stores, Hist>>
            ELSE /\ Allocate(TRUE)
                 /\ lapi' = [state |-> "ok", region |-> Some(region),
                             base_url |-> Some(base_url_of(region)),
                             cache |-> Len(stores) + 1, ddragon |-> None,
                             api_key |-> env, client |-> 1, error |-> None]
    /\ UNCHANGED <<env, status_result, ddc, cacheLock, task, otherCalls, dispatched>>

\* DDragonClient::new_for_lapi(client, cache, language): keeps the handles it is given
new_for_lapi(client, cache, language) ==
    [client |-> client, cache |-> cache, language |-> language]

\* with_ddragon handing the embedded client a cache of its own
with_ddragon_own_cache(language) ==
    /\ lapi.state = "ok"
    /\ Allocate(TRUE)
    /\ lapi' = [lapi EXCEPT
                  !.ddragon = Some(new_for_lapi(lapi.client, Len(stores) + 1, language))]
    /\ UNCHANGED <<env, status_result, ddc, cacheLock, task, otherCalls, dispatched>>

\* with_ddragon building the returned LeagueClient around a new, empty cache
with_ddragon_fresh_cache(language) ==
    /\ lapi.state = "ok"
    /\ Allocate(TRUE)
    /\ lapi' = [lapi EXCEPT
                  !.cache = Len(stores) + 1,
                  !.ddragon = Some(new_for_lapi(lapi.client, Len(stores) + 1, language))]
    /\ UNCHANGED <<env, status_result, ddc, cacheLock, task, otherCalls, dispatched>>

\* LeagueClient::with_ddragon(self, language)
with_ddragon(language) ==
    /\ lapi.state = "ok"
    /\ lapi' = [lapi EXCEPT
                  !.ddragon = Some(new_for_lapi(lapi.client, lapi.cache, language))]
    /\ UNCHANGED <<env, status_result, ddc, stores, cacheLock, task, Hist, otherCalls, dispatched>>

\* DDragonClient::new(language), run once to initialise the static DDRAGON_CLIENT
DDragonClient_new(versions) ==
    /\ ddc.state = "none"
    /\ otherCalls' = otherCalls + 1
    /\ CASE versions = "error" ->
              /\ ddc' = [ddc EXCEPT !.state = "err"]
              /\ UNCHANGED <<stores, Hist>>
         [] versions = "empty" ->
              \* versions.remove(0) on an empty Vec panics
              /\ ddc' = [ddc EXCEPT !.state = "panic"]
              /\ UNCHANGED <<stores, Hist>>
         [] OTHER ->
              /\ Allocate(FALSE)
              /\ ddc' = [ddc EXCEPT !.state = "ok", !.cache = Len(stores) + 1]
    /\ UNCHANGED <<env, status_result, lapi, cacheLock, task, dispatched>>

\* --------------------------------------------------------- starting a call

CanStart(t) == task[t].pc \in {"idle", "done"} /\ dispatched < MaxDispatch

Started(store, url) ==
    [pc |-> "start", accessor |-> None, store |-> store, url |-> Some(url),
     status |-> None, resp |-> None, hit |-> FALSE, result |-> NoResult]

\* an accessor of LeagueClient (get_summoner_by_name and the like): builds
\* the url and returns the future cached_resp(client.clone(), cache.clone(), url, key)
LeagueClient_accessor(t, url) ==
    /\ t \in LeagueTasks
    /\ CanStart(t)
    /\ lapi.state = "ok"
    /\ task' = [task EXCEPT ![t] = Started(lapi.cache, url)]
    /\ dispatched' = dispatched + 1
    /\ UNCHANGED <<env, status_result, lapi, ddc, stores, cacheLock, Hist, otherCalls>>

\* the caller holds the &mut DDragonClient that ddragon() returned
Facade(cache) == [Idle EXCEPT !.pc = "facade", !.store = cache]

\* ddragon() handing out a client of its own making when none is embedded
ddragon_or_default(t) ==
    /\ t \in EmbeddedTasks
    /\ task[t].pc = "idle"
    /\ lapi.state = "ok"
    /\ IF lapi.ddragon = None
       THEN /\ Allocate(TRUE)
            /\ lapi' = [lapi EXCEPT !.ddragon =
                          Some(new_for_lapi(lapi.client, Len(stores) + 1, "en_US"))]
            /\ task' = [task EXCEPT ![t] = Facade(Len(stores) + 1)]
       ELSE /\ task' = [task EXCEPT ![t] = Facade(Unwrap(lapi.ddragon).cache)]
            /\ UNCHANGED <<lapi, stores, Hist>>
    /\ UNCHANGED <<env, status_result, ddc, cacheLock, otherCalls, dispatched>>

\* LeagueClient::ddragon(&mut self): the embedded client, or a panic
ddragon(t) ==
    /\ t \in EmbeddedTasks
    /\ task[t].pc = "idle"
    /\ lapi.state = "ok"
    /\ IF lapi.ddragon = None
       THEN task' = [task EXCEPT ![t].pc = "panicked",
                                 ![t].result = Panic("no embedded ddragon client")]
       ELSE task' = [task EXCEPT ![t] = Facade(Unwrap(lapi.ddragon).cache)]
    /\ UNCHANGED <<env, status_result, lapi, ddc, stores, cacheLock, Hist, otherCalls,
                   dispatched>>

\* an accessor of the embedded DDragonClient, on the reference ddragon() returned
embedded_accessor(t, url) ==
    /\ t \in EmbeddedTasks
    /\ task[t].pc \in {"facade", "done"}
    /\ dispatched < MaxDispatch
    /\ task' = [task EXCEPT ![t] = Started(task[t].store, url)]
    /\ dispatched' = dispatched + 1
    /\ UNCHANGED <<env, status_result, lapi, ddc, stores, cacheLock, Hist, otherCalls>>

\* let mut client = DDRAGON_CLIENT.lock().unwrap();
DDRAGON_CLIENT_lock(t) ==
    /\ t \in TestThreads
    /\ task[t].pc = "idle"
    /\ ddc.state = "ok"
    /\ ddc.holder = None
    /\ IF ddc.poisoned
       THEN /\ task' = [task EXCEPT ![t].pc = "panicked",
                                    ![t].result = Panic("PoisonError")]
            /\ UNCHANGED ddc
       ELSE /\ ddc' = [ddc EXCEPT !.holder = Some(t)]
            /\ UNCHANGED task
    /\ UNCHANGED <<env, status_result, lapi, stores, cacheLock, Hist, otherCalls, dispatched>>

\* the guard goes out of scope at the end of the test
DDRAGON_CLIENT_unlock(t) ==
    /\ t \in TestThreads
    /\ ddc.holder = Some(t)
    /\ task[t].pc \in {"idle", "done"}
    /\ ddc' = [ddc EXCEPT !.holder = None]
    /\ task' = [task EXCEPT ![t] = Idle]
    /\ UNCHANGED <<env, status_result, lapi, stores, cacheLock, Hist, otherCalls, dispatched>>

\* the public accessors of DDragonClient
Accessors == {"get_champions", "get_champion"}

\* client.get_champions() / client.get_champion(name) on the locked static
DDragonClient_accessor(t, accessor, url) ==
    /\ t \in TestThreads
    /\ CanStart(t)
    /\ ddc.state = "ok"
    /\ ddc.holder = Some(t)
    /\ task' = [task EXCEPT ![t] =
                  [Started(ddc.cache, url) EXCEPT !.accessor = Some(accessor)]]
    /\ dispatched' = dispatched + 1
    /\ UNCHANGED <<env, status_result, lapi, ddc, stores, cacheLock, Hist, otherCalls>>

\* ------------------------------------------------------------ bookkeeping

Bump(h, s, u) == [h EXCEPT ![s][u] = @ + 1]

\* the body a dispatch of u on store s reads out of its response
Take(h, s, u, body) == [h EXCEPT ![s][u] = @ \cup {Unwrap(body)}]

\* what an accessor hands to its caller when its dispatch returned r:
\* get_champion unwraps the Result, the others return it as it is
\* (get_champion then looks the name up in the payload, whose contents are
\* not part of a body here)
accessor_return(accessor, r) ==
    IF accessor = Some("get_champion") THEN unwrap(r) ELSE r

\* the dispatch returns r and the accessor returns with it; a panic ends
\* the thread, unwinds, and poisons a Mutex the thread holds
Finished(t, r) ==
    [task[t] EXCEPT !.pc = IF accessor_return(task[t].accessor, r).tag = "Panic"
                           THEN "panicked" ELSE "done",
                    !.status = None, !.resp = None, !.result = r]

Unwind(t, r) ==
    IF accessor_return(task[t].accessor, r).tag = "Panic" /\ ddc.holder = Some(t)
    THEN ddc' = [ddc EXCEPT !.holder = None, !.poisoned = TRUE]
    ELSE UNCHANGED ddc

\* the Mutex of a shared store is free for a lock-get/insert-unlock step
MutexFree(s) == stores[s].shared => cacheLock = None

\* ------------------------- DDragonClient::get_deserialized_or_add_raw<T>

DDragonTasks == EmbeddedTasks \cup TestThreads

\* the Some(resp) arm, sending a request all the same
dd_hit_refetch(t, body) ==
    LET s == task[t].store
        u == Unwrap(task[t].url)
        r == unwrap(from_str(body, TypeOf(u)))
    IN  /\ task' = [task EXCEPT ![t] = [Finished(t, r) EXCEPT !.hit = TRUE]]
        /\ Unwind(t, r)
        /\ calls' = Bump(calls, s, u)
        /\ UNCHANGED <<stores, writes, misses, retOfStored, received>>

\* the Some(resp) arm, dropping an entry that does not parse
dd_hit_evict(t, body) ==
    LET s == task[t].store
        u == Unwrap(task[t].url)
        r == unwrap(from_str(body, TypeOf(u)))
    IN  /\ task' = [task EXCEPT ![t] = [Finished(t, r) EXCEPT !.hit = TRUE]]
        /\ Unwind(t, r)
        /\ stores' = IF r.tag = "Ok" THEN stores
                      ELSE [stores EXCEPT ![s].map[u] = None]
        /\ UNCHANGED Hist

\* the Some(resp) arm, fetching again when the entry does not parse
dd_hit_fallback(t, body) ==
    LET s == task[t].store
        u == Unwrap(task[t].url)
        r == from_str(body, TypeOf(u))
    IN  IF r.tag = "Ok"
        THEN /\ task' = [task EXCEPT ![t] = [Finished(t, r) EXCEPT !.hit = TRUE]]
             /\ UNCHANGED <<ddc, stores, Hist>>
        ELSE /\ task' = [task EXCEPT ![t].pc = "inflight"]
             /\ calls' = Bump(calls, s, u)
             /\ misses' = Bump(misses, s, u)
             /\ UNCHANGED <<ddc, stores, writes, retOfStored, received>>

\* the Some(resp) arm: serde_json::from_str(resp).unwrap(), no request
dd_hit(t, body) ==
    LET u == Unwrap(task[t].url)
        r == unwrap(from_str(body, TypeOf(u)))
    IN  /\ task' = [task EXCEPT ![t] = [Finished(t, r) EXCEPT !.hit = TRUE]]
        /\ Unwind(t, r)
        /\ UNCHANGED <<stores, Hist>>

\* the None arm up to send(): the request goes out
dd_miss(t) ==
    LET s == task[t].store
        u == Unwrap(task[t].url)
    IN  /\ task' = [task EXCEPT ![t].pc = "inflight"]
        /\ calls' = Bump(calls, s, u)
        /\ misses' = Bump(misses, s, u)
        /\ UNCHANGED <<ddc, stores, writes, retOfStored, received>>

\* the lookup skipped: every dispatch takes the None arm
dd_lookup_always_miss(t) ==
    /\ t \in DDragonTasks
    /\ task[t].pc = "start"
    /\ MutexFree(task[t].store)
    /\ dd_miss(t)
    /\ UNCHANGED <<env, status_result, lapi, cacheLock, otherCalls, dispatched>>

\* match self.cache.get(&url)
dd_lookup(t) ==
    /\ t \in DDragonTasks
    /\ task[t].pc = "start"
    /\ MutexFree(task[t].store)
    /\ LET found == HashMap_get(stores[task[t].store].map, Unwrap(task[t].url))
       IN  IF IsSome(found) THEN dd_hit(t, Unwrap(found)) ELSE dd_miss(t)
    /\ UNCHANGED <<env, status_result, lapi, cacheLock, otherCalls, dispatched>>

\* the request sent a second time before the body is taken
dd_response_retry(t, resp) ==
    /\ t \in DDragonTasks
    /\ task[t].pc = "inflight"
    /\ IF ~resp.sent
       THEN /\ task' = [task EXCEPT ![t] = Finished(t, Err(Plain("reqwest::Error")))]
            /\ UNCHANGED Hist
       ELSE /\ task' = [task EXCEPT ![t].pc = "have_resp",
                                    ![t].status = Some(resp.status),
                                    ![t].resp = resp.body]
            /\ calls' = Bump(calls, task[t].store, Unwrap(task[t].url))
            /\ received' = Take(received, task[t].store, Unwrap(task[t].url), resp.body)
            /\ UNCHANGED <<writes, misses, retOfStored>>
    /\ UNCHANGED <<env, status_result, lapi, ddc, stores, cacheLock, otherCalls, dispatched>>

\* a request that failed is sent again instead of returning the error
dd_response_resend(t, resp) ==
    /\ t \in DDragonTasks
    /\ task[t].pc = "inflight"
    /\ IF ~resp.sent
       THEN /\ calls[task[t].store][Unwrap(task[t].url)] < MaxDispatch + 1
            /\ calls' = Bump(calls, task[t].store, Unwrap(task[t].url))
            /\ UNCHANGED <<task, received>>
       ELSE /\ task' = [task EXCEPT ![t].pc = "have_resp",
                                    ![t].status = Some(resp.status),
                                    ![t].resp = resp.body]
            /\ received' = Take(received, task[t].store, Unwrap(task[t].url), resp.body)
            /\ UNCHANGED calls
    /\ UNCHANGED <<env, status_result, lapi, ddc, stores, cacheLock, writes, misses,
                   retOfStored, otherCalls, dispatched>>

\* self.client.get(url.clone()).send()?.text()?: the status is not looked at
dd_response(t, resp) ==
    /\ t \in DDragonTasks
    /\ task[t].pc = "inflight"
    /\ IF ~resp.sent
       THEN /\ task' = [task EXCEPT ![t] = Finished(t, Err(Plain("reqwest::Error")))]
            /\ Unwind(t, Err(Plain("reqwest::Error")))
            /\ UNCHANGED received
       ELSE /\ task' = [task EXCEPT ![t].pc = "have_resp",
                                    ![t].status = Some(resp.status),
                                    ![t].resp = resp.body]
            /\ received' = Take(received, task[t].store, Unwrap(task[t].url), resp.body)
            /\ UNCHANGED ddc
    /\ UNCHANGED <<env, status_result, lapi, stores, cacheLock, calls, writes, misses,
                   retOfStored, otherCalls, dispatched>>

\* the body deserialized first and inserted only when that succeeded
dd_insert_parsed_only(t) ==
    /\ t \in DDragonTasks
    /\ task[t].pc = "have_resp"
    /\ MutexFree(task[t].store)
    /\ LET s == task[t].store
           u == Unwrap(task[t].url)
           r == unwrap(from_str(Unwrap(task[t].resp), TypeOf(u)))
       IN  /\ IF r.tag = "Ok"
              THEN /\ stores' = [stores EXCEPT ![s].map =
                                   HashMap_insert(@, u, Unwrap(task[t].resp))]
                   /\ writes' = Bump(writes, s, u)
                   /\ retOfStored' = [retOfStored EXCEPT ![s][u] =
                                        [by |-> Some(t), ret |-> r]]
              ELSE UNCHANGED <<stores, writes, retOfStored>>
           /\ task' = [task EXCEPT ![t] = Finished(t, r)]
           /\ Unwind(t, r)
    /\ UNCHANGED <<env, status_result, lapi, cacheLock, calls, misses, received, otherCalls,
                   dispatched>>

\* self.cache.insert(url.clone(), response); then
\* serde_json::from_str(self.cache.get(&url).unwrap()).expect("Could not parse")
dd_insert(t) ==
    /\ t \in DDragonTasks
    /\ task[t].pc = "have_resp"
    /\ MutexFree(task[t].store)
    /\ LET s == task[t].store
           u == Unwrap(task[t].url)
           map == HashMap_insert(stores[s].map, u, Unwrap(task[t].resp))
           r == unwrap(from_str(Unwrap(HashMap_get(map, u)), TypeOf(u)))
       IN  /\ stores' = [stores EXCEPT ![s].map = map]
           /\ writes' = Bump(writes, s, u)
           /\ retOfStored' = [retOfStored EXCEPT ![s][u] = [by |-> Some(t), ret |-> r]]
           /\ task' = [task EXCEPT ![t] = Finished(t, r)]
           /\ Unwind(t, r)
    /\ UNCHANGED <<env, status_result, lapi, cacheLock, calls, misses, received, otherCalls,
                   dispatched>>

\* ------------------------------------------------------ utils::cached_resp

\* cache.lock(): before the lookup and before the insert
cr_lock(t) ==
    /\ t \in LeagueTasks
    /\ task[t].pc \in {"start", "have_resp"}
    /\ cacheLock = None
    /\ cacheLock' = Some(t)
    /\ task' = [task EXCEPT ![t].pc = IF @ = "start" THEN "locked_get" ELSE "locked_put"]
    /\ UNCHANGED <<env, status_result, lapi, ddc, stores, Hist, otherCalls, dispatched>>

\* the lookup under the lock; the lock is released before anything else
cr_lookup(t) ==
    /\ t \in LeagueTasks
    /\ task[t].pc = "locked_get"
    /\ cacheLock' = None
    /\ LET s == task[t].store
           u == Unwrap(task[t].url)
           found == HashMap_get(stores[s].map, u)
       IN  IF IsSome(found)
           THEN /\ task' = [task EXCEPT ![t] =
                     [Finished(t, unwrap(from_str(Unwrap(found), TypeOf(u))))
                        EXCEPT !.hit = TRUE]]
                /\ UNCHANGED Hist
           ELSE /\ task' = [task EXCEPT ![t].pc = "inflight"]
                /\ calls' = Bump(calls, s, u)
                /\ misses' = Bump(misses, s, u)
                /\ UNCHANGED <<writes, retOfStored, received>>
    /\ UNCHANGED <<env, status_result, lapi, ddc, stores, otherCalls, dispatched>>

\* the response arrives: a transport failure, or a status to classify
cr_response(t, resp) ==
    /\ t \in LeagueTasks
    /\ task[t].pc = "inflight"
    /\ IF ~resp.sent
       THEN /\ task' = [task EXCEPT ![t] = Finished(t, Err(Plain("Other")))]
            /\ UNCHANGED received
       ELSE LET chk == check_status(Unwrap(lapi.region), resp.status) IN
            IF chk.tag = "Err"
            THEN /\ task' = [task EXCEPT ![t] =
                              [Finished(t, chk) EXCEPT !.status = Some(resp.status)]]
                 /\ UNCHANGED received
            ELSE /\ task' = [task EXCEPT ![t].pc = "have_resp",
                                        ![t].status = Some(resp.status),
                                        ![t].resp = resp.body]
                 /\ received' = Take(received, task[t].store, Unwrap(task[t].url),
                                     resp.body)
    /\ UNCHANGED <<env, status_result, lapi, ddc, stores, cacheLock, calls, writes, misses,
                   retOfStored, otherCalls, dispatched>>

\* the insert under the lock, then the deserialization of the body
cr_store(t) ==
    /\ t \in LeagueTasks
    /\ task[t].pc = "locked_put"
    /\ cacheLock' = None
    /\ LET s == task[t].store
           u == Unwrap(task[t].url)
           r == from_str(Unwrap(task[t].resp), TypeOf(u))
       IN  /\ stores' = [stores EXCEPT ![s].map = HashMap_insert(@, u, Unwrap(task[t].resp))]
           /\ writes' = Bump(writes, s, u)
           /\ retOfStored' = [retOfStored EXCEPT ![s][u] = [by |-> Some(t), ret |-> r]]
           /\ task' = [task EXCEPT ![t] = Finished(t, r)]
    /\ UNCHANGED <<env, status_result, lapi, ddc, calls, misses, received, otherCalls,
                   dispatched>>

\* a caller stops awaiting
CanCancel(t) ==
    /\ t \in LeagueTasks
    /\ task[t].pc \in {"start", "locked_get", "inflight", "have_resp", "locked_put", "done"}

\* cancellation that takes back the entry of the url of the future
cancel_rollback(t) ==
    /\ CanCancel(t)
    /\ task' = [task EXCEPT ![t] = Idle]
    /\ cacheLock' = IF cacheLock = Some(t) THEN None ELSE cacheLock
    /\ stores' = [stores EXCEPT ![task[t].store].map[Unwrap(task[t].url)] = None]
    /\ UNCHANGED <<env, status_result, lapi, ddc, Hist, otherCalls, dispatched>>

\* the future an accessor returned is dropped, at any point up to the moment
\* its output is taken; a MutexGuard it holds is dropped with it, and the
\* caller is free to make its next call
cancel(t) ==
    /\ CanCancel(t)
    /\ task' = [task EXCEPT ![t] = Idle]
    /\ cacheLock' = IF cacheLock = Some(t) THEN None ELSE cacheLock
    /\ UNCHANGED <<env, status_result, lapi, ddc, stores, Hist, otherCalls, dispatched>>

\* ------------------------------------------------------- the state machine

\* one LeagueClient, its futures and its embedded DDragonClient
Next ==
    \/ \E region \in Regions : LeagueClient_new(region)
    \/ \E language \in Languages : with_ddragon(language)
    \/ \E t \in LeagueTasks, url \in Urls : LeagueClient_accessor(t, url)
    \/ \E t \in EmbeddedTasks : ddragon(t)
    \/ \E t \in EmbeddedTasks, url \in Urls : embedded_accessor(t, url)
    \/ \E t \in DDragonTasks : dd_lookup(t)
    \/ \E t \in DDragonTasks, resp \in Responses : dd_response(t, resp)
    \/ \E t \in DDragonTasks : dd_insert(t)
    \/ \E t \in LeagueTasks : cr_lock(t)
    \/ \E t \in LeagueTasks : cr_lookup(t)
    \/ \E t \in LeagueTasks, resp \in Responses : cr_response(t, resp)
    \/ \E t \in LeagueTasks : cr_store(t)
    \/ \E t \in LeagueTasks : cancel(t)

Spec == Init /\ [][Next]_vars

\* the static DDRAGON_CLIENT and the test threads that lock it
NextStatic ==
    \/ \E versions \in {"error", "empty", "ok"} : DDragonClient_new(versions)
    \/ \E t \in TestThreads : DDRAGON_CLIENT_lock(t)
    \/ \E t \in TestThreads : DDRAGON_CLIENT_unlock(t)
    \/ \E t \in TestThreads, accessor \in Accessors, url \in Urls :
          DDragonClient_accessor(t, accessor, url)
    \/ \E t \in DDragonTasks : dd_lookup(t)
    \/ \E t \in DDragonTasks, resp \in Responses : dd_response(t, resp)
    \/ \E t \in DDragonTasks : dd_insert(t)

SpecStatic == Init /\ [][NextStatic]_vars

\* ------------------------------------------------- the status classifier

\* LeagueClient::get_status(status): check_status(self.region.clone(), status)
get_status(status) ==
    /\ lapi.state = "ok"
    /\ ~status_result.called
    /\ status_result' = [called |-> TRUE, status |-> status,
                         result |-> check_status(Unwrap(lapi.region), status)]
    /\ UNCHANGED <<env, lapi, ddc, stores, cacheLock, task, Hist, otherCalls, dispatched>>

\* a LeagueClient as LeagueClient::new leaves it, for any region
InitClassify ==
    /\ env = Some(RGAPI \o Pad("-", RequiredLen - 5))
    /\ status_result = NoStatus
    /\ \E region \in AllRegions :
         lapi = [state |-> "ok", region |-> Some(region),
                 base_url |-> Some(base_url_of(region)), cache |-> 1,
                 ddragon |-> None, api_key |-> env, client |-> 1, error |-> None]
    /\ ddc = NoDDragonClient
    /\ stores = <<[shared |-> TRUE, map |-> EmptyMap]>>
    /\ cacheLock = None
    /\ task = [t \in Tasks |-> Idle]
    /\ calls = <<ZeroMap>>
    /\ writes = <<ZeroMap>>
    /\ misses = <<ZeroMap>>
    /\ retOfStored = <<[u \in Urls |-> NotStored]>>
    /\ received = <<[u \in Urls |-> {}]>>
    /\ otherCalls = 0
    /\ dispatched = 0

\* one call per client; the guard of get_status, stated before the draw
NextClassify ==
    /\ ~status_result.called
    /\ \E status \in 0..U16Max : get_status(status)

SpecClassify == InitClassify /\ [][NextClassify]_vars

\* ================================================================ claims

\* the classification table of the specification: status -> outcome
StatusTable ==
    (400 :> "BadRequest") @@ (401 :> "Unauthorized") @@ (403 :> "Forbidden")
      @@ (404 :> "DataNotFound") @@ (405 :> "MethodNotAllowed")
      @@ (415 :> "UnsupportedMediaType") @@ (429 :> "RateLimitExceeded")
      @@ (500 :> "InternalServerError") @@ (502 :> "BadGateway")
      @@ (503 :> "ServiceUnavailable") @@ (504 :> "GatewayTimeout")

\* C5: check_status is total and matches the fixed table: a listed code gives
\* its outcome (429 with limit 0, 503 with exactly the region passed in, the
\* others with no context), and 200 and every other 16-bit code gives success.
C5_check_status_matches_table ==
    status_result.called =>
        LET code == status_result.status
            r == status_result.result
        IN  IF code \in DOMAIN StatusTable
            THEN /\ r.tag = "Err"
                 /\ Unwrap(r.err).variant = StatusTable[code]
                 /\ Unwrap(r.err).limit = IF code = 429 THEN Some(0) ELSE None
                 /\ Unwrap(r.err).region = IF code = 503 THEN lapi.region ELSE None
                 /\ Unwrap(r.err).token = None
            ELSE r = OkUnit

\* C5 witness: 503 classified for region EUW carries EUW
C5_witness ==
    /\ status_result.called
    /\ status_result.status = 503
    /\ lapi.region = Some("EUW")
    /\ Unwrap(status_result.result.err).region = Some("EUW")

\* a token passes the credential format: contains "RGAPI" and is 42 long
WellFormed(token) == Contains(token, RGAPI) /\ Len(token) = 42

\* C6: LeagueClient::new succeeds iff the token contains "RGAPI" and has
\* length 42; otherwise it returns WrongToken carrying that token, produces
\* no client and no cache, and no network call has been made.
C6_new_iff_token_well_formed ==
    (lapi.state # "none" /\ IsSome(env)) =>
        IF WellFormed(Unwrap(env))
        THEN /\ lapi.state = "ok"
             /\ lapi.api_key = env
             /\ lapi.cache \in 1..Len(stores)
        ELSE /\ lapi.state = "err"
             /\ lapi.error = Some(Error("WrongToken", None, None, env))
             /\ lapi.cache = 0
             /\ stores = <<>>
             /\ otherCalls = 0
             /\ \A t \in Tasks : task[t] = Idle

\* C6 witness: construction has failed on a 41-character token
C6_witness ==
    /\ lapi.state = "err"
    /\ IsSome(env)
    /\ Len(Unwrap(env)) = 41
    /\ Contains(Unwrap(env), RGAPI)

\* ------------------------------------------------ the steps of a dispatch

StoreIds == 1..Len(stores)

\* the step in which dispatch t looks its url up in the cache
LookupStep(t) ==
    \/ t \in DDragonTasks /\ task[t].pc = "start" /\ task'[t].pc # "start"
    \/ /\ t \in LeagueTasks
       /\ task[t].pc = "locked_get"
       /\ task'[t].pc \notin {"locked_get", "idle"}

\* the entry dispatch t is about, as the store holds it now
EntryOf(t) == stores[task[t].store].map[Unwrap(task[t].url)]

\* the step in which dispatch t inserts the body it fetched
InsertStep(t) ==
    \/ t \in DDragonTasks /\ task[t].pc = "have_resp" /\ task'[t].pc # "have_resp"
    \/ /\ t \in LeagueTasks
       /\ task[t].pc = "locked_put"
       /\ task'[t].pc \notin {"locked_put", "idle"}

\* dispatch t has observed a miss for (s, u) and has not finished
Pending(t, s, u) ==
    /\ task[t].pc \in {"inflight", "have_resp", "locked_put"}
    /\ task[t].store = s
    /\ task[t].url = Some(u)

\* no dispatch of u on s is between its miss and its insert
Quiet(s, u) == \A t \in Tasks : ~Pending(t, s, u)

\* the body a successfully deserialized value came from
BodyOf(r) == [shape |-> Unwrap(r.val).type, rev |-> Unwrap(r.val).rev]

\* C1: a dispatch of an identity that has an entry in the store makes no
\* network call, leaves the store unchanged and returns the deserialized
\* stored body, the same value the dispatch that stored the body returned.
C1_cache_hit ==
    [][\A t \in Tasks :
         (LookupStep(t) /\ IsSome(EntryOf(t))) =>
            /\ calls' = calls
            /\ otherCalls' = otherCalls
            /\ stores' = stores
            /\ writes' = writes
            /\ task'[t].pc \in {"done", "panicked"}
            /\ task'[t].result =
                 unwrap(from_str(Unwrap(EntryOf(t)), TypeOf(Unwrap(task[t].url))))
            /\ (task'[t].result.tag = "Ok" =>
                  task'[t].result = retOfStored[task[t].store][Unwrap(task[t].url)].ret)
      ]_vars

\* C1 witness: a dispatch through the DDragonClient was served from the store
C1_witness ==
    \E t \in DDragonTasks :
        /\ task[t].pc = "done"
        /\ task[t].hit
        /\ task[t].result.tag = "Ok"
        /\ calls[task[t].store][Unwrap(task[t].url)] = 1

\* C2: with no other dispatch of U having missed, a successful dispatch of an
\* identity U that had no entry makes exactly one network call and one store
\* write, the store then maps U to the body fetched, and every dispatch of U
\* after it makes no network call.
C2_single_miss ==
    [][/\ \A t \in Tasks :
            LET s == task[t].store
                u == Unwrap(task[t].url)
            IN  (InsertStep(t) /\ misses[s][u] = 1 /\ task'[t].result.tag = "Ok") =>
                    /\ calls'[s][u] = 1
                    /\ writes'[s][u] = 1
                    /\ ~task'[t].hit
                    /\ stores'[s].map[u] = task[t].resp
                    /\ stores'[s].map[u] = Some(BodyOf(task'[t].result))
       /\ \A s \in StoreIds, u \in Urls :
            (IsSome(stores[s].map[u]) /\ misses[s][u] = 1) =>
                /\ calls'[s][u] = 1
                /\ writes'[s][u] = 1
                /\ stores'[s].map[u] = stores[s].map[u]
      ]_vars

\* C2 witness: after one miss of U, a second dispatch of U by the same caller
\* has been served from the store, with one network call in all
C2_witness ==
    \E t \in DDragonTasks :
        /\ task[t].pc = "done"
        /\ task[t].hit
        /\ retOfStored[task[t].store][Unwrap(task[t].url)].by = Some(t)
        /\ misses[task[t].store][Unwrap(task[t].url)] = 1
        /\ calls[task[t].store][Unwrap(task[t].url)] = 1
        /\ writes[task[t].store][Unwrap(task[t].url)] = 1

\* C3 as stated: over every interleaving each identity causes exactly one
\* network call and one mutation of the store.
C3_once_per_identity ==
    \A s \in StoreIds, u \in Urls : calls[s][u] <= 1 /\ writes[s][u] <= 1

\* C3 as amended: a dispatch sends a request only on observing a miss and
\* inserts only after its own request, so writes <= calls = misses for every
\* identity; and once an identity has an entry and no dispatch of it is
\* between its miss and its insert, no further call or write for it happens.
C3_calls_follow_misses ==
    [][\A s \in StoreIds, u \in Urls :
         /\ calls[s][u] = misses[s][u]
         /\ writes[s][u] <= calls[s][u]
         /\ calls'[s][u] # calls[s][u] =>
               /\ calls'[s][u] = calls[s][u] + 1
               /\ stores[s].map[u] = None
         /\ writes'[s][u] # writes[s][u] =>
               /\ writes'[s][u] = writes[s][u] + 1
               /\ \E t \in Tasks : Pending(t, s, u) /\ InsertStep(t)
         /\ (IsSome(stores[s].map[u]) /\ Quiet(s, u)) =>
               /\ calls'[s][u] = calls[s][u]
               /\ writes'[s][u] = writes[s][u]
               /\ \A t \in Tasks : ~(Pending(t, s, u))'
      ]_vars

\* C3 witness: one identity fetched twice and stored twice, by two dispatches
\* that both observed a miss
C3_witness ==
    \E s \in StoreIds, u \in Urls :
        /\ calls[s][u] = 2
        /\ misses[s][u] = 2
        /\ writes[s][u] = 2
        /\ Quiet(s, u)

\* C4 as stated: a dispatch that missed and received a classified error
\* status has returned the corresponding error, with nothing written for it:
\* it never goes on to store the body.
C4_error_status_not_stored ==
    \A t \in Tasks :
        (IsSome(task[t].status) /\ Unwrap(task[t].status) \in DOMAIN StatusTable) =>
            /\ task[t].pc = "done"
            /\ ~task[t].hit
            /\ task[t].resp = None
            /\ task[t].result.tag = "Err"
            /\ Unwrap(task[t].result.err).variant = StatusTable[Unwrap(task[t].status)]

C9_last_writer_wins ==
    [][\A t \in Tasks :
         InsertStep(t) =>
            /\ stores'[task[t].store].map[Unwrap(task[t].url)] = task[t].resp
            /\ retOfStored'[task[t].store][Unwrap(task[t].url)].by = Some(t)
      ]_vars

\* C9 witness: two futures of one identity both missed and both fetched, with
\* different bodies; the store holds the body of the one that wrote last
C9_witness ==
    \E a \in LeagueTasks, b \in LeagueTasks :
        LET s == task[a].store
            u == Unwrap(task[a].url)
        IN  /\ a # b
            /\ task[a].pc = "done" /\ task[b].pc = "done"
            /\ task[b].store = s /\ task[b].url = Some(u)
            /\ ~task[a].hit /\ ~task[b].hit
            /\ task[a].result.tag = "Ok" /\ task[b].result.tag = "Ok"
            /\ task[a].result # task[b].result
            /\ calls[s][u] = 2
            /\ retOfStored[s][u].by = Some(b)
            /\ stores[s].map[u] = Some(BodyOf(task[b].result))

\* C10 as stated: no dispatch has its request in flight while it holds the
\* lock that guards the cache it works on.
C10_no_lock_across_fetch ==
    \A t \in Tasks :
        task[t].pc = "inflight" => (cacheLock # Some(t) /\ ddc.holder # Some(t))

\* C11 as stated: every lookup and every insert is made on a map that sits
\* behind its own Mutex, by a dispatch that takes that Mutex itself; it does
\* not rest on a guard its caller took around the whole client.
C11_map_access_under_own_lock ==
    [][\A t \in Tasks :
         (LookupStep(t) \/ InsertStep(t)) =>
            /\ stores[task[t].store].shared
            /\ cacheLock \in {None, Some(t)}
            /\ ddc.holder # Some(t)
      ]_vars

\* a dispatch t that fetched and has returned the body stored under its url
FetchedOwn(t) ==
    /\ task[t].pc = "done"
    /\ ~task[t].hit
    /\ task[t].result.tag = "Ok"
    /\ calls[task[t].store][Unwrap(task[t].url)] = 1
    /\ stores[task[t].store].map[Unwrap(task[t].url)] = Some(BodyOf(task[t].result))

\* C12: the body stored under an identity is always a body the transport
\* returned for that identity, and a dispatch that fetched returns the value of
\* a response to its own identity; an insert changes the entry of the
\* inserting dispatch's identity only, whatever other dispatch is under way.
C12_no_cross_contamination ==
    /\ [](\A s \in StoreIds, u \in Urls :
            IsSome(stores[s].map[u]) => Unwrap(stores[s].map[u]) \in received[s][u])
    /\ [](\A t \in Tasks :
            (task[t].pc = "done" /\ ~task[t].hit /\ task[t].result.tag = "Ok") =>
                /\ BodyOf(task[t].result) \in received[task[t].store][Unwrap(task[t].url)]
                /\ Unwrap(task[t].result.val).type = TypeOf(Unwrap(task[t].url)))
    /\ [][\A t \in Tasks :
            InsertStep(t) =>
               \A s \in StoreIds, u \in Urls :
                  (s # task[t].store \/ Some(u) # task[t].url) =>
                      stores'[s].map[u] = stores[s].map[u]
         ]_vars

\* C12 witness: two dispatches of distinct identities on one store have both
\* fetched and returned; each entry is the body of its own dispatch
C12_witness ==
    \E a \in Tasks, b \in Tasks :
        /\ FetchedOwn(a) /\ FetchedOwn(b)
        /\ task[a].store = task[b].store
        /\ task[a].url # task[b].url
        /\ Cardinality(received[task[a].store][Unwrap(task[a].url)]) = 1
        /\ Cardinality(received[task[b].store][Unwrap(task[b].url)]) = 1

\* the step in which the future of dispatch t is dropped
CancelStep(t) == t \in LeagueTasks /\ task[t].pc # "idle" /\ task'[t].pc = "idle"

\* C13: dropping a dispatch at any point changes neither the store nor the
\* counts of calls and writes and leaves the lock free of it; an entry is a
\* whole body and exists only once an insert has completed; an entry stays
\* when the dispatch that stored it is cancelled, and a lookup of it is a hit
\* that sends no request.
C13_cancel_keeps_store ==
    /\ [][\A t \in Tasks :
            CancelStep(t) =>
               /\ stores' = stores
               /\ calls' = calls
               /\ writes' = writes
               /\ cacheLock' # Some(t)
               /\ cacheLock # Some(t) => cacheLock' = cacheLock
         ]_vars
    /\ [](\A s \in StoreIds, u \in Urls :
            /\ IsSome(stores[s].map[u]) <=> writes[s][u] > 0
            /\ IsSome(stores[s].map[u]) => Unwrap(stores[s].map[u]) \in Bodies)
    /\ [][\A s \in StoreIds, u \in Urls :
            IsSome(stores[s].map[u]) =>
               /\ IsSome(stores'[s].map[u])
               /\ \A t \in Tasks :
                    (LookupStep(t) /\ task[t].store = s /\ task[t].url = Some(u)) =>
                        (task'[t].hit /\ calls' = calls)
         ]_vars

\* C13 witness: one future was dropped after its body had been stored, and the
\* entry is there; another was dropped with the body of its response in hand
\* and nothing stored, and there is no entry for its url; the lock is free
C13_witness ==
    \E a \in LeagueTasks, s \in StoreIds, ua \in Urls, ub \in Urls :
        /\ ua # ub
        /\ \A t \in Tasks : task[t].pc = "idle"
        /\ retOfStored[s][ua].by = Some(a)
        /\ IsSome(stores[s].map[ua])
        /\ calls[s][ub] = 1
        /\ Cardinality(received[s][ub]) = 1
        /\ writes[s][ub] = 0
        /\ stores[s].map[ub] = None
        /\ cacheLock = None

\* the step in which the request of dispatch t fails at transport level
FailStep(t) ==
    /\ task[t].pc = "inflight"
    /\ task'[t].pc \in {"done", "panicked"}
    /\ task'[t].status = None

\* C14: a dispatch whose request fails at transport level returns that error
\* with nothing stored and no further request; requests are sent by lookups
\* that missed and by nothing else; and a lookup of an identity that has no
\* entry, after a failure as before it, is a miss that sends one request.
C14_transport_failure ==
    [][/\ \A t \in Tasks :
            FailStep(t) =>
               /\ task'[t].result.tag = "Err"
               /\ Unwrap(task'[t].result.err).variant \in {"reqwest::Error", "Other"}
               /\ calls' = calls
               /\ writes' = writes
               /\ stores' = stores
       /\ \A s \in StoreIds, u \in Urls :
            calls'[s][u] # calls[s][u] =>
               \E t \in Tasks :
                  /\ LookupStep(t) /\ EntryOf(t) = None
                  /\ task[t].store = s /\ task[t].url = Some(u)
       /\ \A t \in Tasks :
            (LookupStep(t) /\ EntryOf(t) = None) =>
               /\ task'[t].pc = "inflight"
               /\ calls' = Bump(calls, task[t].store, Unwrap(task[t].url))
      ]_vars

\* C14 witness: one caller dispatched the same identity twice and both requests
\* failed: two requests in all, the second a miss again, nothing stored, and
\* the error in the caller's hands
C14_witness ==
    \E t \in Tasks, s \in StoreIds, u \in Urls :
        /\ \A o \in Tasks \ {t} : task[o].pc = "idle"
        /\ task[t].pc = "done"
        /\ task[t].store = s /\ task[t].url = Some(u)
        /\ task[t].result = Err(Plain("reqwest::Error"))
        /\ calls[s][u] = 2
        /\ misses[s][u] = 2
        /\ writes[s][u] = 0
        /\ stores[s].map[u] = None

\* the step in which caller t calls ddragon()
DdragonStep(t) == t \in EmbeddedTasks /\ task[t].pc = "idle" /\ task'[t].pc # "idle"

\* C15: ddragon() on a LeagueClient with no embedded client panics, builds no
\* client and no cache and leaves the LeagueClient as it was; with an embedded
\* client it returns that client; nobody holds or uses an embedded client
\* that with_ddragon did not put there.
C15_ddragon_fails_fast ==
    /\ [][\A t \in Tasks :
            DdragonStep(t) =>
               /\ lapi' = lapi
               /\ stores' = stores
               /\ IF lapi.ddragon = None
                  THEN /\ task'[t].pc = "panicked"
                       /\ task'[t].result.tag = "Panic"
                       /\ task'[t].store = 0
                  ELSE /\ task'[t].pc = "facade"
                       /\ task'[t].result = NoResult
                       /\ task'[t].store = Unwrap(lapi.ddragon).cache
         ]_vars
    /\ [](\A t \in EmbeddedTasks :
            task[t].pc \notin {"idle", "panicked"} =>
                (IsSome(lapi.ddragon) /\ task[t].store = Unwrap(lapi.ddragon).cache))

\* C15 witness: ddragon() was called on a LeagueClient on which with_ddragon
\* had not been, and panicked
C15_witness ==
    \E t \in EmbeddedTasks :
        /\ lapi.state = "ok"
        /\ lapi.ddragon = None
        /\ task[t].pc = "panicked"
        /\ task[t].result = Panic("no embedded ddragon client")
        /\ task[t].store = 0

Undecodable(entry, u) == from_str(Unwrap(entry), TypeOf(u)).tag = "Err"

\* C17: a lookup that finds a body which does not deserialize into the
\* requested type ends the dispatch in a panic, with no request sent and the
\* store as it was; a dispatch that has panicked takes no further step.
C17_hit_decode_failure_fatal ==
    [][\A t \in Tasks :
         /\ (/\ LookupStep(t)
             /\ IsSome(EntryOf(t))
             /\ Undecodable(EntryOf(t), Unwrap(task[t].url))) =>
                /\ task'[t].pc = "panicked"
                /\ task'[t].hit
                /\ task'[t].result.tag = "Panic"
                /\ calls' = calls
                /\ writes' = writes
                /\ stores' = stores
         /\ task[t].pc = "panicked" => task'[t] = task[t]
      ]_vars

\* C17 witness: a dispatch through the DDragonClient found a body that does
\* not parse and panicked; the entry is still that body, fetched once
C17_witness ==
    \E t \in DDragonTasks :
        LET s == task[t].store
            u == Unwrap(task[t].url)
        IN  /\ task[t].pc = "panicked"
            /\ task[t].hit
            /\ IsSome(stores[s].map[u])
            /\ Undecodable(stores[s].map[u], u)
            /\ calls[s][u] = 1
            /\ writes[s][u] = 1

\* C18 as stated: whenever the dispatch under an accessor returns an error,
\* the accessor returns: its caller has an error result, not a panic.
C18_accessors_return_errors ==
    [][\A t \in Tasks :
         (task[t].pc \notin {"done", "panicked"} /\ task'[t].result.tag = "Err") =>
             task'[t].pc = "done"
      ]_vars

\* C19: the insert of a dispatch that missed puts the body it fetched into
\* the store whether or not that body deserializes; when it does not, the
\* dispatch fails after the write; and a lookup that finds an entry, one that
\* does not deserialize included, is a hit that sends no request and leaves
\* the store as it is.
C19_stored_before_deserialized ==
    [][\A t \in Tasks :
         LET s == task[t].store
             u == Unwrap(task[t].url)
         IN  /\ InsertStep(t) =>
                  /\ stores'[s].map[u] = task[t].resp
                  /\ writes'[s][u] = writes[s][u] + 1
                  /\ Undecodable(task[t].resp, u) =>
                        /\ task'[t].result.tag \in {"Panic", "Err"}
                        /\ ~task'[t].hit
             /\ (LookupStep(t) /\ IsSome(EntryOf(t))) =>
                  /\ task'[t].hit
                  /\ calls'[s][u] = calls[s][u]
                  /\ stores' = stores
      ]_vars

\* C19 witness: a dispatch through the DDragonClient stored a body that does
\* not parse and failed on it; a later dispatch of the same url by another
\* caller was a hit on that body; one request was sent in all
C19_witness ==
    \E t \in DDragonTasks, o \in Tasks, s \in StoreIds, u \in Urls :
        /\ o # t
        /\ retOfStored[s][u].by = Some(t)
        /\ task[t].pc = "panicked" /\ ~task[t].hit
        /\ IsSome(stores[s].map[u])
        /\ Undecodable(stores[s].map[u], u)
        /\ task[o].store = s /\ task[o].url = Some(u)
        /\ task[o].hit
        /\ calls[s][u] = 1
        /\ writes[s][u] = 1

\* C20: once a LeagueClient is built, no step changes its region, base url,
\* token, transport handle or cache handle, and the base url is the one
\* derived from the region; the step that sets the embedded DDragonClient
\* changes nothing else: the stores, the lock and every dispatch are as before.
C20_with_ddragon_frame ==
    [][lapi.state = "ok" =>
         /\ lapi'.state = "ok"
         /\ lapi'.region = lapi.region
         /\ lapi'.base_url = lapi.base_url
         /\ lapi.base_url = Some(base_url_of(Unwrap(lapi.region)))
         /\ lapi'.api_key = lapi.api_key
         /\ lapi'.client = lapi.client
         /\ lapi'.cache = lapi.cache
         /\ lapi'.error = lapi.error
         /\ lapi'.ddragon # lapi.ddragon =>
               /\ IsSome(lapi'.ddragon)
               /\ stores' = stores
               /\ cacheLock' = cacheLock
               /\ task' = task
               /\ <<calls, writes, misses, retOfStored, received>>' =
                     <<calls, writes, misses, retOfStored, received>>
      ]_vars

\* C20 witness: a LeagueClient with an embedded DDragonClient, its region,
\* base url and token those it was built with, and a body in its cache
C20_witness ==
    /\ lapi.state = "ok"
    /\ IsSome(lapi.ddragon)
    /\ lapi.region = Some("NA")
    /\ lapi.base_url = Some(base_url_of("NA"))
    /\ lapi.api_key = env
    /\ \E u \in Urls : IsSome(stores[lapi.cache].map[u])
    /\ \A t \in EmbeddedTasks : task[t].pc = "idle"

====
